---- MODULE Spec2Model ----
(***************************************************************************)
(* The WatermelonDB synchronisation views of watermelon-django-sync:       *)
(* watermelon_app.views.SyncView (projects / tasks) and                    *)
(* watermelon_user.views.UserProfileSyncView (users / student_profiles).   *)
(* The store is the four Django tables; a pull is GET, a push is POST.     *)
(***************************************************************************)
EXTENDS Integers, Sequences, FiniteSets, TLC

VARIABLES site, db, user_seq, now, resp, reader, writers, txn

vars == <<site, db, user_seq, now, resp, reader, writers, txn>>


---------------------------------------------------------------------------
(* Bounds of the exploration.                                              *)

\* The server clock runs from tick 1 to tick MaxTime.
MaxTime == 2
\* A push batch carries at most MaxItems items over all its lists.
MaxItems == 2
\* Clock ticks per millisecond: timestamps are finer than the cursor.
TicksPerMs == 1
\* Pushes that commit while one pull is running.
MaxOverlap == 1
\* The pushes and the pulls of a client's chain of pulls.
MaxPushes == 2
MaxPulls == 3

---------------------------------------------------------------------------
(* Values.                                                                 *)

\* SQL NULL in a foreign-key column, JSON null in a payload.
Null == "null"
\* SQL NULL in the deleted_at column.
NullTime == 0 - 2
\* datetime.datetime.min, the cursor of a pull without last_pulled_at.
DateTimeMin == 0 - 1
\* The query parameter last_pulled_at is absent (or empty).
NoCursor == 0 - 1
\* The query parameter is present and empty (last_pulled_at=).
EmptyCursor == 0 - 4
\* The query parameter is present and is not the text of an integer.
GarbageCursor == 0 - 5

Models == {"Project", "Task", "User", "StudentProfile"}

ProjectIds == {"P1"}
TaskIds == {"T1"}
\* AutoField values of User rows, in the order the sequence hands them out.
UserIds == <<"1", "2">>
ProfileIds == {"S1"}

Ids(m) ==
    CASE m = "Project" -> ProjectIds
      [] m = "Task" -> TaskIds
      [] m = "User" -> {UserIds[i] : i \in 1..Len(UserIds)}
      [] m = "StudentProfile" -> ProfileIds

\* The scalar column of each model that a payload may carry.
Scalar(m) ==
    CASE m = "Project" -> "name"
      [] m = "Task" -> "title"
      [] m = "User" -> "username"
      [] m = "StudentProfile" -> "bio"

\* The foreign-key column of each model ("" when it has none).
Fk(m) ==
    CASE m = "Project" -> "lead_task"
      [] m = "Task" -> "project"
      [] m = "User" -> ""
      [] m = "StudentProfile" -> "user"

\* The model a foreign key points to.
FkTarget(m) ==
    CASE m = "Project" -> "Task"
      [] m = "Task" -> "Project"
      [] m = "StudentProfile" -> "User"
      [] m = "User" -> ""

\* The models a site's sync view serves.
SiteModels(s) ==
    IF s = "watermelon_app" THEN {"Project", "Task"} ELSE {"User", "StudentProfile"}

\* The key of a model's collection in a request or response body.
Collection(m) ==
    CASE m = "Project" -> "projects"
      [] m = "Task" -> "tasks"
      [] m = "User" -> "users"
      [] m = "StudentProfile" -> "student_profiles"

\* A blank string, which a CharField / TextField rejects.
Blank == ""
\* Scalar values that pass field validation.
GoodScalars == {"a", "b"}

---------------------------------------------------------------------------
(* The store: db[m] is the table of model m, a function from the primary   *)
(* keys of its rows to the rows.                                           *)

Put(table, id, row) ==
    [x \in DOMAIN table \cup {id} |-> IF x = id THEN row ELSE table[x]]

PutRow(d, m, id, row) == [d EXCEPT ![m] = Put(d[m], id, row)]

EmptyDb == [m \in Models |-> <<>>]

\* One entry of the error list a push returns: the message's wording, the
\* model it names and the id it names.
Err(kind, m, id) == [kind |-> kind, model |-> m, id |-> id]

---------------------------------------------------------------------------
(* The serializers (rest_framework ModelSerializer over the four models).  *)

\* Fields a serializer takes from a payload; every other key is ignored.
\* created_at and updated_at are auto_now(_add), hence read-only, and User.id
\* is an AutoField, hence read-only; deleted_at is a field of the user
\* serializers only.
Writable(m) ==
    CASE m = "Project" -> {"id", "name", "lead_task"}
      [] m = "Task" -> {"id", "title", "project"}
      [] m = "User" -> {"username", "deleted_at"}
      [] m = "StudentProfile" -> {"id", "user", "bio", "deleted_at"}

\* Fields that is_valid() demands when partial is not set.
Required(m) ==
    CASE m = "Project" -> {"name"}
      [] m = "Task" -> {"title"}
      [] m = "User" -> {"username"}
      [] m = "StudentProfile" -> {"user", "bio"}

\* NoInstance: the serializer was built without an instance (a create).
NoInstance == "no instance"

\* Validation of one field of the payload. instance is the primary key of
\* the row being updated, or NoInstance.
FieldValid(d, m, k, v, instance) ==
    CASE k = "id" ->
            \* UniqueValidator of the primary key, the instance excluded
            v = instance \/ v \notin DOMAIN d[m]
      [] k = Scalar(m) ->
            /\ v # Blank
            /\ v # Null
            /\ m = "User" =>
                 \* UniqueValidator of username
                 \A u \in DOMAIN d[m] : d[m][u].username = v => u = instance
      [] k = Fk(m) ->
            \* PrimaryKeyRelatedField(queryset=Target.objects.all())
            IF v = Null THEN m # "StudentProfile" ELSE v \in DOMAIN d[FkTarget(m)]
      [] k = "deleted_at" -> TRUE

\* serializer.is_valid() for serializer_class(data=data) (partial = FALSE)
\* and serializer_class(obj, data=data, partial=True).
is_valid(d, m, data, instance, partial) ==
    /\ partial \/ Required(m) \subseteq DOMAIN data
    /\ \A k \in DOMAIN data \cap Writable(m) : FieldValid(d, m, k, data[k], instance)

\* The row of a fresh instance of model m, saved at time t.
NewRow(m, data, t) ==
    [k \in {Scalar(m), "created_at", "updated_at", "deleted_at"}
           \cup (IF Fk(m) = "" THEN {} ELSE {Fk(m)}) |->
        CASE k = Scalar(m) -> data[k]
          [] k = "created_at" -> t
          [] k = "updated_at" -> t
          [] k = "deleted_at" ->
                IF "deleted_at" \in DOMAIN data \cap Writable(m)
                THEN data.deleted_at ELSE NullTime
          [] OTHER ->
                IF k \in DOMAIN data THEN data[k] ELSE Null]

\* SaveRow with created_at set anew as well.
SaveRowNewCreatedAt(row, t) == [row EXCEPT !["updated_at"] = t, !["created_at"] = t]

\* Model.save() of an existing row: every column is written, updated_at is
\* auto_now, created_at keeps its value.
SaveRow(row, t) == [row EXCEPT !["updated_at"] = t]

\* UpdatedRow with the foreign key cleared when the payload does not give it.
UpdatedRowClearing(m, row, data, t) ==
    SaveRow([k \in DOMAIN row |->
                IF k \in (DOMAIN data \cap Writable(m)) \ {"id"} THEN data[k]
                ELSE IF k = Fk(m) THEN Null ELSE row[k]], t)

\* serializer.save() with an instance: the validated fields are assigned,
\* then the row is saved.
UpdatedRow(m, row, data, t) ==
    SaveRow([k \in DOMAIN row |->
                IF k \in (DOMAIN data \cap Writable(m)) \ {"id"}
                THEN data[k] ELSE row[k]], t)

---------------------------------------------------------------------------
(* The loops of the handlers. A loop state st is [db, errors]: the store   *)
(* as the transaction sees it and the error list so far.                   *)

\* for item in items: ... (views.py, the loops of _apply_changes,
\* _apply_updated and _apply_deleted), Body being the loop's body.
RECURSIVE ForEach(_, _, _)
ForEach(Body(_, _), st, items) ==
    IF items = <<>> THEN st
    ELSE ForEach(Body, Body(st, Head(items)), Tail(items))

Fail(st, e) == [st EXCEPT !.errors = Append(@, e)]

\* The payload without its foreign key: {k: v for k, v in item.items() if k != fk}
Strip(item, fk) == [k \in DOMAIN item \ {fk} |-> item[k]]

\* CreateBare with the foreign key left in the payload handed to the
\* serializer.
CreateKeepingFk(st, m, item, t) ==
    IF is_valid(st.db, m, item, NoInstance, FALSE)
    THEN [st EXCEPT !.db = PutRow(@, m, item.id, NewRow(m, item, t))]
    ELSE Fail(st, Err("creation failed", m, item.id))

\* Steps 1 and 2 of _apply_changes, one item: the record is created without
\* its foreign key, or the creation is reported as failed.
CreateBare(st, m, item, t) ==
    LET item_data == Strip(item, Fk(m)) IN
    IF is_valid(st.db, m, item_data, NoInstance, FALSE)
    THEN [st EXCEPT !.db = PutRow(@, m, item.id, NewRow(m, item_data, t))]
    ELSE Fail(st, Err("creation failed", m, item.id))

\* Steps 3 and 4 of _apply_changes, one item: the foreign key is set on the
\* row with the payload's id, when both rows are found by objects.get().
LinkFk(st, m, item, t) ==
    IF Fk(m) \notin DOMAIN item THEN st
    ELSE IF item.id \notin DOMAIN st.db[m]
              \/ item[Fk(m)] \notin DOMAIN st.db[FkTarget(m)]
         THEN Fail(st, Err("failed to set " \o Fk(m), m, item.id))
         ELSE [st EXCEPT !.db = PutRow(@, m, item.id,
                  SaveRow([st.db[m][item.id] EXCEPT ![Fk(m)] = item[Fk(m)]], t))]

\* SyncView._apply_updated: a partial update of each row named by items.
apply_updated(st0, items, m, t) ==
    ForEach(LAMBDA st, item :
        IF item.id \notin DOMAIN st.db[m]
        THEN Fail(st, Err("does not exist", m, item.id))
        ELSE IF is_valid(st.db, m, item, item.id, TRUE)
             THEN [st EXCEPT !.db = PutRow(@, m, item.id,
                      UpdatedRow(m, st.db[m][item.id], item, t))]
             ELSE Fail(st, Err("update failed", m, item.id)),
        st0, items)

\* apply_deleted passing over an id that names no row without a word.
apply_deleted_silent(st0, ids, m, t) ==
    ForEach(LAMBDA st, id :
        IF id \notin DOMAIN st.db[m]
        THEN st
        ELSE [st EXCEPT !.db = PutRow(@, m, id,
                 SaveRow([st.db[m][id] EXCEPT !.deleted_at = t], t))],
        st0, ids)

\* SyncView._apply_deleted: a soft deletion of each row named by ids.
apply_deleted(st0, ids, m, t) ==
    ForEach(LAMBDA st, id :
        IF id \notin DOMAIN st.db[m]
        THEN Fail(st, Err("does not exist", m, id))
        ELSE [st EXCEPT !.db = PutRow(@, m, id,
                 SaveRow([st.db[m][id] EXCEPT !.deleted_at = t], t))],
        st0, ids)

\* The lists of a change set, absent keys defaulting to the empty list.
Created(changes) == changes.created
Updated(changes) == changes.updated
Deleted(changes) == changes.deleted

\* SyncView._apply_changes.
apply_changes(d, projects_changes, tasks_changes, t) ==
    LET project_items == Created(projects_changes)
        task_items == Created(tasks_changes)
        s0 == [db |-> d, errors |-> <<>>]
        s1 == ForEach(LAMBDA st, item : CreateBare(st, "Project", item, t), s0, project_items)
        s2 == ForEach(LAMBDA st, item : CreateBare(st, "Task", item, t), s1, task_items)
        s3 == ForEach(LAMBDA st, item : LinkFk(st, "Project", item, t), s2, project_items)
        s4 == ForEach(LAMBDA st, item : LinkFk(st, "Task", item, t), s3, task_items)
        s5 == apply_updated(s4, Updated(projects_changes), "Project", t)
        s6 == apply_updated(s5, Updated(tasks_changes), "Task", t)
        s7 == apply_deleted(s6, Deleted(projects_changes), "Project", t)
        s8 == apply_deleted(s7, Deleted(tasks_changes), "Task", t)
    IN  s8

HTTP_200_OK == 200
HTTP_400_BAD_REQUEST == 400

\* The body of the response of a push.
ResponseBody(errors) ==
    IF errors # <<>> THEN [errors |-> errors] ELSE [status |-> "success"]

\* post answering every batch with the success status.
post_always_ok(d, changes, t) ==
    LET r == apply_changes(d, changes.projects, changes.tasks, t) IN
    [db |-> r.db,
     errors |-> r.errors,
     body |-> ResponseBody(r.errors),
     status |-> HTTP_200_OK]

\* post with the transaction rolled back when the batch reports an error.
post_rollback(d, changes, t) ==
    LET r == apply_changes(d, changes.projects, changes.tasks, t) IN
    [db |-> IF r.errors # <<>> THEN d ELSE r.db,
     errors |-> r.errors,
     body |-> ResponseBody(r.errors),
     status |-> IF r.errors # <<>> THEN HTTP_400_BAD_REQUEST ELSE HTTP_200_OK]

\* SyncView.post: the batch is applied inside transaction.atomic(); no
\* per-item error leaves the block as an exception, so the block commits.
post(d, changes, t) ==
    LET r == apply_changes(d, changes.projects, changes.tasks, t) IN
    [db |-> r.db,
     errors |-> r.errors,
     body |-> ResponseBody(r.errors),
     status |-> IF r.errors # <<>> THEN HTTP_400_BAD_REQUEST ELSE HTTP_200_OK]

---------------------------------------------------------------------------
(* UserProfileSyncView: the same push over users and student profiles.     *)

\* Phase 1 of UserProfileSyncView._apply_changes, one item: the payload goes
\* to the serializer whole; the row gets the next value of the id sequence.
\* A loop state of this view also carries that sequence as seq.
CreateUser(st, item, t) ==
    IF is_valid(st.db, "User", item, NoInstance, FALSE)
    THEN [st EXCEPT !.db = PutRow(@, "User", UserIds[st.seq], NewRow("User", item, t)),
                    !.seq = @ + 1]
    ELSE Fail(st, Err("creation failed", "User", item.id))

\* UserProfileSyncView._apply_updates: every failure, a missing row
\* included, is caught as Exception.
apply_updates(st0, items, m, t) ==
    ForEach(LAMBDA st, item :
        IF item.id \notin DOMAIN st.db[m]
        THEN Fail(st, Err("unexpected error updating", m, item.id))
        ELSE IF is_valid(st.db, m, item, item.id, TRUE)
             THEN [st EXCEPT !.db = PutRow(@, m, item.id,
                      UpdatedRow(m, st.db[m][item.id], item, t))]
             ELSE Fail(st, Err("update failed", m, item.id)),
        st0, items)

\* UserProfileSyncView._apply_deletions
apply_deletions(st0, ids, m, t) ==
    ForEach(LAMBDA st, id :
        IF id \notin DOMAIN st.db[m]
        THEN Fail(st, Err("unexpected error deleting", m, id))
        ELSE [st EXCEPT !.db = PutRow(@, m, id,
                 SaveRow([st.db[m][id] EXCEPT !.deleted_at = t], t))],
        st0, ids)

\* UserProfileSyncView._apply_changes
user_apply_changes(d, seq, user_changes, profile_changes, t) ==
    LET user_items == Created(user_changes)
        profile_items == Created(profile_changes)
        s0 == [db |-> d, errors |-> <<>>, seq |-> seq]
        s1 == ForEach(LAMBDA st, item : CreateUser(st, item, t), s0, user_items)
        s2 == ForEach(LAMBDA st, item : CreateBare(st, "StudentProfile", item, t),
                      s1, profile_items)
        s3 == ForEach(LAMBDA st, item : LinkFk(st, "StudentProfile", item, t),
                      s2, profile_items)
        s4 == apply_updates(s3, Updated(user_changes), "User", t)
        s5 == apply_updates(s4, Updated(profile_changes), "StudentProfile", t)
        s6 == apply_deletions(s5, Deleted(user_changes), "User", t)
        s7 == apply_deletions(s6, Deleted(profile_changes), "StudentProfile", t)
    IN  s7

\* UserProfileSyncView.post
user_post(d, seq, changes, t) ==
    LET r == user_apply_changes(d, seq, changes.users, changes.student_profiles, t) IN
    [db |-> r.db,
     seq |-> r.seq,
     errors |-> r.errors,
     body |-> ResponseBody(r.errors),
     status |-> IF r.errors # <<>> THEN HTTP_400_BAD_REQUEST ELSE HTTP_200_OK]

---------------------------------------------------------------------------
(* Pull: the delta since a cursor.                                         *)

\* Meta.fields of the serializer of model m, as they appear in a response.
Fields(m) ==
    CASE m = "Project" -> {"id", "name", "lead_task", "created_at", "updated_at"}
      [] m = "Task" -> {"id", "title", "project", "created_at", "updated_at"}
      [] m = "User" -> {"id", "username", "created_at", "updated_at", "deleted_at"}
      [] m = "StudentProfile" ->
            {"id", "user", "bio", "created_at", "updated_at", "deleted_at"}

\* Serializer(row).data
Serialize(m, id, row) == [k \in Fields(m) |-> IF k = "id" THEN id ELSE row[k]]

\* QueryCreated without the deleted_at__isnull filter.
QueryCreatedWithDeleted(d, m, c) ==
    {id \in DOMAIN d[m] : d[m][id].created_at > c}

\* Model.objects.filter(created_at__gt=c, deleted_at__isnull=True)
QueryCreated(d, m, c) ==
    {id \in DOMAIN d[m] : d[m][id].created_at > c /\ d[m][id].deleted_at = NullTime}

\* QueryUpdated without the created_at__lte guard.
QueryUpdatedAnyAge(d, m, c) ==
    {id \in DOMAIN d[m] : d[m][id].updated_at > c /\ d[m][id].deleted_at = NullTime}

\* Model.objects.filter(updated_at__gt=c, created_at__lte=c, deleted_at__isnull=True)
QueryUpdated(d, m, c) ==
    {id \in DOMAIN d[m] : /\ d[m][id].updated_at > c
                          /\ d[m][id].created_at <= c
                          /\ d[m][id].deleted_at = NullTime}

\* Model.objects.filter(deleted_at__gt=c).values_list('id', flat=True)
QueryDeleted(d, m, c) ==
    {id \in DOMAIN d[m] : d[m][id].deleted_at # NullTime /\ d[m][id].deleted_at > c}

\* One collection's entry of the changes of a pull response.
Delta(d, m, c) ==
    [created |-> {Serialize(m, id, d[m][id]) : id \in QueryCreated(d, m, c)},
     updated |-> {Serialize(m, id, d[m][id]) : id \in QueryUpdated(d, m, c)},
     deleted |-> QueryDeleted(d, m, c)]

\* ParseCursor with an absent cursor read as the current time.
ParseCursorDefaultNow(last_pulled_at_str) ==
    IF last_pulled_at_str = NoCursor THEN now - 1
    ELSE last_pulled_at_str * TicksPerMs

\* The cursor as a datetime: fromtimestamp(int(s) / 1000), or datetime.min
\* when the parameter is absent.
ParseCursor(last_pulled_at_str) ==
    IF last_pulled_at_str \in {NoCursor, EmptyCursor} THEN DateTimeMin
    ELSE last_pulled_at_str * TicksPerMs

\* int(last_pulled_at_str) raises ValueError. Nothing in the view or in the
\* framework's exception handler catches it.
Raises(last_pulled_at_str) == last_pulled_at_str = GarbageCursor

\* int(timezone.now().timestamp() * 1000)
Millis(t) == t \div TicksPerMs

\* SyncView.get
get(d, last_pulled_at_str, t) ==
    LET last_pulled_at == ParseCursor(last_pulled_at_str) IN
    [changes |-> [projects |-> Delta(d, "Project", last_pulled_at),
                  tasks |-> Delta(d, "Task", last_pulled_at)],
     timestamp |-> Millis(t)]

\* UserProfileSyncView.get
user_get(d, last_pulled_at_str, t) ==
    LET last_pulled_at == ParseCursor(last_pulled_at_str) IN
    [changes |-> [users |-> Delta(d, "User", last_pulled_at),
                  student_profiles |-> Delta(d, "StudentProfile", last_pulled_at)],
     timestamp |-> Millis(t)]

---------------------------------------------------------------------------
(* Requests.                                                               *)

\* A key a payload does not carry.
Absent == "absent"
\* deleted_at is not in the payload.
AbsentTime == 0 - 3

Payload(m, id, sc, fk, del) ==
    [k \in {"id"} \cup (IF sc = Absent THEN {} ELSE {Scalar(m)})
                  \cup (IF fk = Absent THEN {} ELSE {Fk(m)})
                  \cup (IF del = AbsentTime THEN {} ELSE {"deleted_at"}) |->
        CASE k = "id" -> id
          [] k = Scalar(m) -> sc
          [] k = "deleted_at" -> del
          [] OTHER -> fk]

\* The values a payload gives its foreign key.
FkValues(m) ==
    IF m = "User" THEN {Absent} ELSE {Absent, Null} \cup Ids(FkTarget(m))

\* The values an update payload gives deleted_at: only the user serializers
\* have the field.
DelValues(m) ==
    IF m \in {"User", "StudentProfile"} THEN {AbsentTime, NullTime} ELSE {AbsentTime}

CreatedPayloads(m) ==
    {Payload(m, id, sc, fk, AbsentTime) :
        id \in Ids(m), sc \in {"a", Blank}, fk \in FkValues(m)}

UpdatedPayloads(m) ==
    {Payload(m, id, sc, fk, del) :
        id \in Ids(m), sc \in {Absent, "b"}, fk \in FkValues(m), del \in DelValues(m)}

\* The items a batch is made of: the list it goes to, its model, its payload
\* (of a deleted list: the bare id).
Items(m) ==
    {[slot |-> "created", model |-> m, val |-> x] : x \in CreatedPayloads(m)}
    \cup {[slot |-> "updated", model |-> m, val |-> x] : x \in UpdatedPayloads(m)}
    \cup {[slot |-> "deleted", model |-> m, val |-> [id |-> x]] : x \in Ids(m)}

SeqsUpTo(S, n) == UNION {[1..k -> S] : k \in 0..n}

RECURSIVE Select(_, _, _)
Select(items, slot, m) ==
    IF items = <<>> THEN <<>>
    ELSE LET it == Head(items)
             rest == Select(Tail(items), slot, m)
         IN  IF it.slot = slot /\ it.model = m
             THEN <<IF slot = "deleted" THEN it.val.id ELSE it.val>> \o rest
             ELSE rest

ChangeSet(items, m) ==
    [created |-> Select(items, "created", m),
     updated |-> Select(items, "updated", m),
     deleted |-> Select(items, "deleted", m)]

\* The request bodies of SyncView.post with at most n items.
AppBatchesOf(n) ==
    {[projects |-> ChangeSet(s, "Project"), tasks |-> ChangeSet(s, "Task")] :
        s \in SeqsUpTo(Items("Project") \cup Items("Task"), n)}

\* The request bodies of UserProfileSyncView.post with at most n items.
UserBatchesOf(n) ==
    {[users |-> ChangeSet(s, "User"),
      student_profiles |-> ChangeSet(s, "StudentProfile")] :
        s \in SeqsUpTo(Items("User") \cup Items("StudentProfile"), n)}

AppBatches == AppBatchesOf(MaxItems)
UserBatches == UserBatchesOf(MaxItems)
\* Pushes of a single change.
AppSingles == AppBatchesOf(1)
UserSingles == UserBatchesOf(1)

\* The values of last_pulled_at.
Cursors == {NoCursor} \cup (0..Millis(MaxTime))
\* The values of last_pulled_at that are present and are no timestamp.
BadCursors == {EmptyCursor, GarbageCursor}

NoResp == [kind |-> "none"]

---------------------------------------------------------------------------
(* The state machine: one client at a time, each request handled whole.    *)
(* The two views share no table, so a behaviour stays with one of them:    *)
(* site is the Django app whose sync/ route the requests go to.            *)

Sites == {"watermelon_app", "watermelon_user"}

\* No pull is in progress.
IdleReader == [pc |-> "idle"]
\* The pushes that may run at the same time, and one that is not running.
Writers == {1, 2}
IdleWriter == [pc |-> "idle"]
\* No push is being applied step by step.
IdleTxn == [pc |-> "idle"]

\* A store with a user and their student profile. The push of
\* UserProfileSyncView cannot create a StudentProfile row (its creation
\* always fails validation), so such rows come from outside the sync views.
SeededDb ==
    [EmptyDb EXCEPT
        !["User"] = ("1" :> [username |-> "a", created_at |-> 1, updated_at |-> 1,
                             deleted_at |-> NullTime]),
        !["StudentProfile"] = ("S1" :> [bio |-> "a", user |-> "1", created_at |-> 1,
                                        updated_at |-> 1, deleted_at |-> NullTime])]

Init ==
    /\ site \in Sites
    /\ \/ db = EmptyDb /\ user_seq = 1
       \/ site = "watermelon_user" /\ db = SeededDb /\ user_seq = 2
    /\ now = 1
    /\ resp = NoResp
    /\ reader = IdleReader
    /\ writers = [w \in Writers |-> IdleWriter]
    /\ txn = IdleTxn

PushResp(changes, r) ==
    [kind |-> "push", changes |-> changes, prev |-> db, prev_seq |-> user_seq,
     errors |-> r.errors, body |-> r.body, status |-> r.status]

\* POST sync/ of watermelon_app, answered with the errors or with success.
Push(changes) ==
    /\ site = "watermelon_app"
    /\ resp = NoResp
    /\ LET r == post(db, changes, now) IN
        /\ db' = r.db
        /\ resp' = PushResp(changes, r)
    /\ UNCHANGED <<txn, site, user_seq, now, reader, writers>>

\* POST sync/ of watermelon_user.
UserPush(changes) ==
    /\ site = "watermelon_user"
    /\ resp = NoResp
    /\ user_seq + Len(changes.users.created) <= Len(UserIds) + 1
    /\ LET r == user_post(db, user_seq, changes, now) IN
        /\ db' = r.db
        /\ user_seq' = r.seq
        /\ resp' = PushResp(changes, r)
    /\ UNCHANGED <<txn, site, now, reader, writers>>

\* The answer to a pull. A pull that repeats the cursor of the answer in
\* hand, with no push in between, keeps that answer beside its own.
PullResp(c, r) ==
    LET repeat == resp.kind = "pull" /\ resp.cursor = c IN
    [kind |-> "pull", cursor |-> c, changes |-> r.changes, timestamp |-> r.timestamp,
     repeat |-> repeat, read |-> TRUE,
     since |-> IF repeat THEN resp.since ELSE r.timestamp,
     before |-> IF repeat THEN resp.changes ELSE r.changes,
     store |-> IF repeat THEN resp.store ELSE db]

\* The request ended with an exception leaving the view, before the
\* querysets were built: the store was not read.
Uncaught(c) == [kind |-> "exception", cursor |-> c, read |-> FALSE, store |-> db]

\* GET sync/ of watermelon_app.
Pull(last_pulled_at_str) ==
    /\ site = "watermelon_app"
    /\ resp' = IF Raises(last_pulled_at_str) THEN Uncaught(last_pulled_at_str)
               ELSE PullResp(last_pulled_at_str, get(db, last_pulled_at_str, now))
    /\ UNCHANGED <<txn, site, db, user_seq, now, reader, writers>>

\* GET sync/ of watermelon_user.
UserPull(last_pulled_at_str) ==
    /\ site = "watermelon_user"
    /\ resp' = IF Raises(last_pulled_at_str) THEN Uncaught(last_pulled_at_str)
               ELSE PullResp(last_pulled_at_str, user_get(db, last_pulled_at_str, now))
    /\ UNCHANGED <<txn, site, db, user_seq, now, reader, writers>>

\* The client has read the answer to its request.
Deliver ==
    /\ resp # NoResp
    /\ resp' = NoResp
    /\ UNCHANGED <<txn, site, db, user_seq, now, reader, writers>>

\* The server clock advances.
Tick ==
    /\ resp.kind # "push"
    /\ now < MaxTime
    /\ now' = now + 1
    /\ UNCHANGED <<txn, site, db, user_seq, resp, reader, writers>>

\* The next request goes to this site and the client is not waiting for an
\* answer.
Idle(s) == site = s /\ resp = NoResp

\* Clients that push one change at a time and pull, as the clock runs.
Next ==
    \/ Idle("watermelon_app") /\ \E changes \in AppSingles : Push(changes)
    \/ Idle("watermelon_user") /\ \E changes \in UserSingles : UserPush(changes)
    \/ site = "watermelon_app" /\ \E c \in Cursors \cup BadCursors : Pull(c)
    \/ site = "watermelon_user" /\ \E c \in Cursors \cup BadCursors : UserPull(c)
    \/ Deliver
    \/ Tick

Spec == Init /\ [][Next]_vars

\* A client that pushes batches of up to MaxItems items, within one tick of
\* the clock.
NextBatch ==
    \/ Idle("watermelon_app") /\ \E changes \in AppBatches : Push(changes)
    \/ Idle("watermelon_user") /\ \E changes \in UserBatches : UserPush(changes)
    \/ Deliver

SpecBatch == Init /\ [][NextBatch]_vars

---------------------------------------------------------------------------
(* A pull running beside pushes. SyncView.get builds six querysets and     *)
(* evaluates them one by one while it builds the response, each a           *)
(* statement of its own (the view opens no transaction); a push commits    *)
(* its transaction.atomic() block as a whole.                               *)

\* The querysets in the order the response evaluates them.
Queries ==
    <<[model |-> "Project", bucket |-> "created"],
      [model |-> "Project", bucket |-> "updated"],
      [model |-> "Project", bucket |-> "deleted"],
      [model |-> "Task", bucket |-> "created"],
      [model |-> "Task", bucket |-> "updated"],
      [model |-> "Task", bucket |-> "deleted"]>>

NoChanges ==
    [c \in {"projects", "tasks"} |-> [created |-> {}, updated |-> {}, deleted |-> {}]]

\* GET sync/ arrives: the cursor is parsed and the querysets are built.
\* seen collects the committed stores the pull runs beside.
StartPull(last_pulled_at_str) ==
    /\ reader.pc = "idle"
    /\ reader' = [pc |-> "query", n |-> 1, cursor |-> last_pulled_at_str,
                  changes |-> NoChanges, seen |-> {db}]
    /\ UNCHANGED <<txn, site, db, user_seq, now, resp, writers>>

\* The next queryset is evaluated against the store as committed now; after
\* the last one the response is complete.
RunQuery ==
    /\ reader.pc = "query"
    /\ LET q == Queries[reader.n]
           rows == Delta(db, q.model, ParseCursor(reader.cursor))[q.bucket]
       IN  reader' = [reader EXCEPT
                        !.changes[Collection(q.model)][q.bucket] = rows,
                        !.n = @ + 1,
                        !.pc = IF reader.n = Len(Queries) THEN "done" ELSE "query"]
    /\ UNCHANGED <<txn, site, db, user_seq, now, resp, writers>>

\* The response has been sent.
EndPull ==
    /\ reader.pc = "done"
    /\ reader' = IdleReader
    /\ UNCHANGED <<txn, site, db, user_seq, now, resp, writers>>

\* POST sync/ of another client commits.
CommitPush(changes) ==
    /\ reader.pc \in {"idle", "query"}
    /\ reader.pc = "query" => Cardinality(reader.seen) <= MaxOverlap
    /\ db' = post(db, changes, now).db
    /\ reader' = IF reader.pc = "query" THEN [reader EXCEPT !.seen = @ \cup {db'}]
                 ELSE reader
    /\ UNCHANGED <<txn, site, user_seq, now, resp, writers>>

InitRead == Init /\ site = "watermelon_app"

NextRead ==
    \/ \E c \in Cursors : StartPull(c)
    \/ RunQuery
    \/ EndPull
    \/ \E changes \in AppBatches : CommitPush(changes)

SpecRead == InitRead /\ [][NextRead]_vars

---------------------------------------------------------------------------
(* Two pushes running side by side, each with one item in an updated or a  *)
(* deleted list of the projects/tasks view. _apply_updated and              *)
(* _apply_deleted first read the row (objects.get) and later save it, and   *)
(* Model.save() writes every column of the object read; nothing locks the   *)
(* row in between (no select_for_update). The save is the last statement of *)
(* the atomic block, so it is committed as it is made.                      *)

\* The items such a push may carry.
WriterItems ==
    {it \in Items("Project") \cup Items("Task") : it.slot \in {"updated", "deleted"}}

\* The request body that holds the one item.
BatchOf(it) ==
    [projects |-> ChangeSet(<<it>>, "Project"), tasks |-> ChangeSet(<<it>>, "Task")]

Other(w) == CHOOSE v \in Writers : v # w

\* POST sync/ arrives at worker w. base is the store from before the first
\* of the pushes in progress.
Begin(w, it) ==
    /\ writers[w].pc = "idle"
    /\ writers' = [writers EXCEPT ![w] =
                     [pc |-> "read", item |-> it,
                      base |-> IF writers[Other(w)].pc = "idle" THEN db
                               ELSE writers[Other(w)].base]]
    /\ UNCHANGED <<txn, site, db, user_seq, now, resp, reader>>

\* obj = model.objects.get(id=...): the row as committed now, or the
\* does-not-exist error, which ends the push.
Read(w) ==
    /\ writers[w].pc = "read"
    /\ LET it == writers[w].item
           m == it.model
           id == it.val.id
       IN  writers' = [writers EXCEPT ![w] =
              IF id \in DOMAIN db[m]
              THEN [pc |-> "save", item |-> it, base |-> @.base, obj |-> db[m][id]]
              ELSE [pc |-> "done", item |-> it, base |-> @.base,
                    errors |-> <<Err("does not exist", m, id)>>]]
    /\ UNCHANGED <<txn, site, db, user_seq, now, resp, reader>>

\* serializer.save() of the validated payload, or obj.save() of the deletion:
\* the object read earlier is written back, every column of it.
Save(w) ==
    /\ writers[w].pc = "save"
    /\ LET it == writers[w].item
           m == it.model
           id == it.val.id
           obj == writers[w].obj
           valid == it.slot = "deleted" \/ is_valid(db, m, it.val, id, TRUE)
           row == IF it.slot = "deleted"
                  THEN SaveRow([obj EXCEPT !.deleted_at = now], now)
                  ELSE UpdatedRow(m, obj, it.val, now)
       IN  /\ db' = IF valid THEN PutRow(db, m, id, row) ELSE db
           /\ writers' = [writers EXCEPT ![w] =
                 [pc |-> "done", item |-> it, base |-> @.base,
                  errors |-> IF valid THEN <<>> ELSE <<Err("update failed", m, id)>>]]
    /\ UNCHANGED <<txn, site, user_seq, now, resp, reader>>

\* The response of worker w has been sent.
Return(w) ==
    /\ writers[w].pc = "done"
    /\ writers[Other(w)].pc \in {"idle", "done"}
    /\ writers' = [writers EXCEPT ![w] = IdleWriter]
    /\ UNCHANGED <<txn, site, db, user_seq, now, resp, reader>>

\* A push that runs alone, from arrival to commit.
LonePush(changes) ==
    /\ \A w \in Writers : writers[w].pc = "idle"
    /\ db' = post(db, changes, now).db
    /\ UNCHANGED <<txn, site, user_seq, now, resp, reader, writers>>

NextWrite ==
    \/ \E w \in Writers : \E it \in WriterItems : Begin(w, it)
    \/ \E w \in Writers : Read(w)
    \/ \E w \in Writers : Save(w)
    \/ \E w \in Writers : Return(w)
    \/ \E changes \in AppSingles : LonePush(changes)

SpecWrite == InitRead /\ [][NextWrite]_vars

---------------------------------------------------------------------------
(* One push, statement by statement. _apply_changes is a sequence of loops  *)
(* (the passes) over the lists of the batch; each turn of a loop handles    *)
(* one item inside the transaction, and the transaction commits when the    *)
(* last loop is done.                                                       *)

\* The passes of SyncView._apply_changes with the creation of every project
\* directly followed by its linkage.
PassesLinkEarly ==
    <<[op |-> "create", model |-> "Project"], [op |-> "link", model |-> "Project"],
      [op |-> "create", model |-> "Task"], [op |-> "link", model |-> "Task"],
      [op |-> "update", model |-> "Project"], [op |-> "update", model |-> "Task"],
      [op |-> "delete", model |-> "Project"], [op |-> "delete", model |-> "Task"]>>

\* The passes of SyncView._apply_changes, in the order of the code.
Passes ==
    <<[op |-> "create", model |-> "Project"], [op |-> "create", model |-> "Task"],
      [op |-> "link", model |-> "Project"], [op |-> "link", model |-> "Task"],
      [op |-> "update", model |-> "Project"], [op |-> "update", model |-> "Task"],
      [op |-> "delete", model |-> "Project"], [op |-> "delete", model |-> "Task"]>>

\* The passes of UserProfileSyncView._apply_changes.
UserPasses ==
    <<[op |-> "create", model |-> "User"], [op |-> "create", model |-> "StudentProfile"],
      [op |-> "link", model |-> "StudentProfile"],
      [op |-> "update", model |-> "User"], [op |-> "update", model |-> "StudentProfile"],
      [op |-> "delete", model |-> "User"], [op |-> "delete", model |-> "StudentProfile"]>>

SitePasses(s) == IF s = "watermelon_app" THEN Passes ELSE UserPasses

\* The list a pass loops over.
PassItems(changes, pass) ==
    LET cs == changes[Collection(pass.model)] IN
    CASE pass.op \in {"create", "link"} -> Created(cs)
      [] pass.op = "update" -> Updated(cs)
      [] pass.op = "delete" -> Deleted(cs)

\* The turns of the loops of a push, in the order they are taken.
RECURSIVE Turns(_, _)
Turns(passes, changes) ==
    IF passes = <<>> THEN <<>>
    ELSE LET items == PassItems(changes, Head(passes)) IN
         [i \in 1..Len(items) |-> [pass |-> Head(passes), item |-> items[i]]]
            \o Turns(Tail(passes), changes)

\* One turn of a loop: the body of the loop of that pass.
Turn(st, s, pass, item, t) ==
    LET m == pass.model IN
    CASE pass.op = "create" ->
            IF m = "User" THEN CreateUser(st, item, t) ELSE CreateBare(st, m, item, t)
      [] pass.op = "link" -> LinkFk(st, m, item, t)
      [] pass.op = "update" ->
            IF s = "watermelon_app" THEN apply_updated(st, <<item>>, m, t)
            ELSE apply_updates(st, <<item>>, m, t)
      [] pass.op = "delete" ->
            IF s = "watermelon_app" THEN apply_deleted(st, <<item>>, m, t)
            ELSE apply_deletions(st, <<item>>, m, t)

\* POST sync/ arrives and transaction.atomic() is entered.
BeginTxn(changes) ==
    /\ txn.pc = "idle"
    /\ site = "watermelon_user" =>
          user_seq + Len(changes.users.created) <= Len(UserIds) + 1
    /\ txn' = [pc |-> "run", changes |-> changes,
               todo |-> Turns(SitePasses(site), changes),
               st |-> [db |-> db, errors |-> <<>>, seq |-> user_seq],
               log |-> <<>>, faulted |-> FALSE, doomed |-> FALSE]
    /\ UNCHANGED <<site, db, user_seq, now, resp, reader, writers>>

\* The id a turn's item names.
TurnId(turn) == IF turn.pass.op = "delete" THEN turn.item ELSE turn.item.id

\* The turn issues a query: every turn but a linkage turn whose payload
\* has no foreign key.
IssuesQuery(turn) == turn.pass.op = "link" => Fk(turn.pass.model) \in DOMAIN turn.item

\* A turn of the linkage, update or deletion loops whose query raised: the
\* loop's `except Exception` turns it into an error of the item.
Caught(st, turn) ==
    Fail(st, Err("unexpected error", turn.pass.model, TurnId(turn)))

\* The next turn of the loops is taken. log keeps, per turn, the pass, the
\* id of the item and whether the turn wrote to the store. Once the
\* transaction is marked for rollback every query raises.
Step ==
    /\ txn.pc = "run"
    /\ txn.todo # <<>>
    /\ LET turn == Head(txn.todo)
           st == IF txn.doomed
                 THEN (IF IssuesQuery(turn) THEN Caught(txn.st, turn) ELSE txn.st)
                 ELSE Turn(txn.st, site, turn.pass, turn.item, now)
           id == TurnId(turn)
       IN  txn' = [txn EXCEPT
                     !.todo = Tail(@),
                     !.st = st,
                     !.log = Append(@, [op |-> turn.pass.op, model |-> turn.pass.model,
                                        id |-> id, wrote |-> st.db # txn.st.db])]
    /\ UNCHANGED <<site, db, user_seq, now, resp, reader, writers>>

\* A store-level failure (the connection, a lock, a timeout) strikes the
\* query of the next turn. In a creation loop nothing catches it: it leaves
\* transaction.atomic(), which rolls back, and the view. In the other
\* loops it becomes an error of the item; doom says whether the transaction
\* is marked for rollback by it (a failed save(), or a store that aborts
\* the transaction on any failed statement) or not.
Fault(doom) ==
    /\ txn.pc = "run"
    /\ txn.todo # <<>>
    /\ ~txn.faulted
    /\ IssuesQuery(Head(txn.todo))
    /\ LET turn == Head(txn.todo) IN
        txn' = IF turn.pass.op = "create"
               THEN [pc |-> "failed", changes |-> txn.changes, log |-> txn.log,
                     prev |-> db, prev_seq |-> user_seq, faulted |-> TRUE]
               ELSE [txn EXCEPT !.todo = Tail(@),
                                !.st = Caught(@, turn),
                                !.faulted = TRUE,
                                !.doomed = doom,
                                !.log = Append(@, [op |-> turn.pass.op,
                                                   model |-> turn.pass.model,
                                                   id |-> TurnId(turn), wrote |-> FALSE])]
    /\ UNCHANGED <<site, db, user_seq, now, resp, reader, writers>>

\* The loops are done: the atomic block commits, or rolls back when the
\* transaction is marked for it, and the response is built.
Commit ==
    /\ txn.pc = "run"
    /\ txn.todo = <<>>
    /\ db' = IF txn.doomed THEN db ELSE txn.st.db
    /\ user_seq' = IF txn.doomed THEN user_seq ELSE txn.st.seq
    /\ txn' = [pc |-> "done", changes |-> txn.changes, log |-> txn.log,
               prev |-> db, prev_seq |-> user_seq, faulted |-> txn.faulted,
               errors |-> txn.st.errors,
               status |-> IF txn.st.errors # <<>> THEN HTTP_400_BAD_REQUEST
                          ELSE HTTP_200_OK]
    /\ UNCHANGED <<site, now, resp, reader, writers>>

\* The response has been sent.
EndTxn ==
    /\ txn.pc \in {"done", "failed"}
    /\ txn' = IdleTxn
    /\ UNCHANGED <<site, db, user_seq, now, resp, reader, writers>>

NextSteps ==
    \/ site = "watermelon_app" /\ \E changes \in AppBatches : BeginTxn(changes)
    \/ site = "watermelon_user" /\ \E changes \in UserBatches : BeginTxn(changes)
    \/ Step
    \/ Commit
    \/ EndTxn

SpecSteps == Init /\ [][NextSteps]_vars

\* The pushes of the projects/tasks view with at most one store-level
\* failure in each.
NextFault ==
    \/ \E changes \in AppBatches : BeginTxn(changes)
    \/ Step
    \/ Commit
    \/ EndTxn
    \/ \E doom \in BOOLEAN : Fault(doom)

SpecFault == InitRead /\ [][NextFault]_vars

---------------------------------------------------------------------------
(* A client that pulls again and again, each time with the timestamp of    *)
(* its last pull as cursor, beside pushes of other clients. A push stamps   *)
(* its rows with the time of each save() and commits later; the pull reads  *)
(* the committed store and takes its timestamp after the reads.             *)

\* The client's copy of the server's records, before its first pull.
NoReplica == [m \in {"Project", "Task"} |-> <<>>]

\* The cursor and the copy the client holds.
CursorOf(r) == IF r.pc = "idle" THEN NoCursor ELSE r.cursor
ReplicaOf(r) == IF r.pc = "idle" THEN NoReplica ELSE r.replica

\* The client applies one collection of a pull response to its copy.
ApplyDelta(table, delta) ==
    [id \in (DOMAIN table \ delta.deleted) \cup {r.id : r \in delta.created \cup delta.updated} |->
        IF id \in {r.id : r \in delta.created \cup delta.updated}
        THEN CHOOSE r \in delta.created \cup delta.updated : r.id = id
        ELSE table[id]]

\* The pulls the client has made and the pushes that have begun.
PullsOf(r) == IF r.pc = "idle" THEN 0 ELSE r.n
PushesOf(x) == IF x.pc = "idle" THEN 0 ELSE x.n

\* POST sync/ of another client runs _apply_changes inside its transaction:
\* the rows are stamped with the time of their save() and are not yet
\* visible to a pull.
StagePush(changes) ==
    /\ txn.pc \in {"idle", "committed"}
    /\ PushesOf(txn) < MaxPushes
    /\ txn' = [pc |-> "staged", n |-> PushesOf(txn) + 1, db |-> post(db, changes, now).db]
    /\ UNCHANGED <<site, db, user_seq, now, resp, reader, writers>>

\* The transaction commits.
CommitStaged ==
    /\ txn.pc = "staged"
    /\ db' = txn.db
    /\ txn' = [pc |-> "committed", n |-> txn.n]
    /\ UNCHANGED <<site, user_seq, now, resp, reader, writers>>

\* GET sync/ with the client's cursor: the querysets are evaluated against
\* the committed store.
ChainRead ==
    /\ reader.pc \in {"idle", "synced"}
    /\ PullsOf(reader) < MaxPulls
    /\ reader' = [pc |-> "read", n |-> PullsOf(reader) + 1,
                  cursor |-> CursorOf(reader), replica |-> ReplicaOf(reader),
                  changes |-> get(db, CursorOf(reader), now).changes, store |-> db]
    /\ UNCHANGED <<site, db, user_seq, now, resp, writers, txn>>

\* current_timestamp is taken and the response sent; the client applies the
\* changes and keeps the timestamp as its next cursor.
ChainStamp ==
    /\ reader.pc = "read"
    /\ reader' = [pc |-> "synced", n |-> reader.n, cursor |-> Millis(now),
                  replica |-> [m \in {"Project", "Task"} |->
                                 ApplyDelta(reader.replica[m], reader.changes[Collection(m)])],
                  store |-> reader.store]
    /\ UNCHANGED <<site, db, user_seq, now, resp, writers, txn>>

NextChain ==
    \/ \E changes \in AppSingles : StagePush(changes)
    \/ CommitStaged
    \/ ChainRead
    \/ ChainStamp
    \/ Tick

SpecChain == InitRead /\ [][NextChain]_vars

---------------------------------------------------------------------------
(* Vocabulary of the properties.                                           *)

\* The answer in hand is the answer to a push.
Pushed == resp.kind = "push"
\* The answer in hand is the answer to a pull.
Pulled == resp.kind = "pull"

Range(seq) == {seq[i] : i \in 1..Len(seq)}

\* The ids of the records in a created or updated list of a pull response.
IdsOf(records) == {r.id : r \in records}

\* A tombstone: a row whose deleted_at is set.
Tombstoned(row) == row.deleted_at # NullTime

---------------------------------------------------------------------------
(* C1: cycle resolution.                                                   *)

\* The batch only creates, with fresh ids and valid scalars, and every
\* foreign key it gives names a record the same batch creates.
CreateOnlyClosed(prev, changes) ==
    \A m \in {"Project", "Task"} :
        LET cs == changes[Collection(m)] IN
        /\ cs.updated = <<>> /\ cs.deleted = <<>>
        /\ \A i \in 1..Len(cs.created) :
            LET item == cs.created[i] IN
            /\ item.id \notin DOMAIN prev[m]
            /\ \A j \in 1..Len(cs.created) : cs.created[j].id = item.id => j = i
            /\ Scalar(m) \in DOMAIN item /\ item[Scalar(m)] \in GoodScalars
            /\ Fk(m) \in DOMAIN item =>
                 item[Fk(m)] \in {x.id : x \in Range(changes[Collection(FkTarget(m))].created)}

\* C1: after a push to the projects/tasks view that only creates, with fresh
\* ids, valid fields and foreign keys naming records of the same batch
\* (mutual references included), every created record exists, every foreign
\* key given equals the named record, every foreign key not given is null,
\* and no error is returned.
C1_CycleResolution ==
    (Pushed /\ site = "watermelon_app" /\ CreateOnlyClosed(resp.prev, resp.changes)) =>
        /\ resp.errors = <<>>
        /\ \A m \in {"Project", "Task"} :
            \A item \in Range(resp.changes[Collection(m)].created) :
                /\ item.id \in DOMAIN db[m]
                /\ db[m][item.id][Scalar(m)] = item[Scalar(m)]
                /\ db[m][item.id][Fk(m)] =
                      IF Fk(m) \in DOMAIN item THEN item[Fk(m)] ELSE Null

\* A push has created a project and a task that reference each other.
C1_Witness ==
    /\ Pushed /\ site = "watermelon_app"
    /\ CreateOnlyClosed(resp.prev, resp.changes)
    /\ Len(resp.changes.projects.created) = 1
    /\ Len(resp.changes.tasks.created) = 1
    /\ "lead_task" \in DOMAIN resp.changes.projects.created[1]
    /\ "project" \in DOMAIN resp.changes.tasks.created[1]
    /\ db["Project"]["P1"].lead_task = "T1"
    /\ db["Task"]["T1"].project = "P1"
    /\ resp.errors = <<>>

---------------------------------------------------------------------------
(* C2: the buckets of a pull are mutually exclusive.                       *)

\* The changes of a pull of this site's view with cursor c.
SiteChanges(c) ==
    IF site = "watermelon_app" THEN get(db, c, now).changes
    ELSE user_get(db, c, now).changes

Exclusive(delta) ==
    /\ IdsOf(delta.created) \cap IdsOf(delta.updated) = {}
    /\ IdsOf(delta.created) \cap delta.deleted = {}
    /\ IdsOf(delta.updated) \cap delta.deleted = {}

\* C2: in every reachable store state, for every cursor (the absent one
\* included) and every collection, no id is in two of created, updated,
\* deleted of the pull response.
C2_BucketsExclusive ==
    \A c \in Cursors : \A m \in SiteModels(site) :
        Exclusive(SiteChanges(c)[Collection(m)])

\* A pull has answered with a record in updated and a record in deleted.
C2_Witness ==
    /\ Pulled
    /\ \E m \in SiteModels(site) : resp.changes[Collection(m)].updated # {}
    /\ \E m \in SiteModels(site) : resp.changes[Collection(m)].deleted # {}

---------------------------------------------------------------------------
(* C3, C4: tombstones.                                                     *)

\* The columns of a row that are not timestamps.
Frozen(m) == {Scalar(m)} \cup (IF Fk(m) = "" THEN {} ELSE {Fk(m)})

\* Some error of the answer names this model and id.
ErrorFor(errors, m, id) ==
    \E i \in 1..Len(errors) : errors[i].model = m /\ errors[i].id = id

\* C3: a push whose updated list names a record that was a tombstone before
\* the push is answered with an error for that item, and the record's
\* non-timestamp fields are as before.
C3_TombstoneUpdateRejected ==
    Pushed =>
        \A m \in SiteModels(site) :
            \A item \in Range(resp.changes[Collection(m)].updated) :
                (item.id \in DOMAIN resp.prev[m] /\ Tombstoned(resp.prev[m][item.id])) =>
                    /\ ErrorFor(resp.errors, m, item.id)
                    /\ \A k \in Frozen(m) : db[m][item.id][k] = resp.prev[m][item.id][k]

\* C4: a push leaves every tombstone a tombstone.
C4_DeletionTerminal ==
    Pushed =>
        \A m \in SiteModels(site) : \A id \in DOMAIN resp.prev[m] :
            Tombstoned(resp.prev[m][id]) => Tombstoned(db[m][id])

---------------------------------------------------------------------------
(* C5: the full snapshot.                                                  *)

\* C5: in every reachable store state of the projects/tasks view, a pull
\* without cursor answers, per collection, with every live record in
\* created, the id of every tombstone in deleted, and nothing in updated.
C5_FullSnapshot ==
    site = "watermelon_app" =>
        \A m \in SiteModels(site) :
            LET delta == get(db, NoCursor, now).changes[Collection(m)] IN
            /\ delta.created =
                  {Serialize(m, id, db[m][id]) : id \in {x \in DOMAIN db[m] : ~Tombstoned(db[m][x])}}
            /\ delta.deleted = {x \in DOMAIN db[m] : Tombstoned(db[m][x])}
            /\ delta.updated = {}

\* A pull without cursor has answered with a live record and a tombstone,
\* both last written before the current tick.
C5_Witness ==
    /\ Pulled /\ site = "watermelon_app" /\ resp.cursor = NoCursor
    /\ \E m \in SiteModels(site) : resp.changes[Collection(m)].created # {}
    /\ \E m \in SiteModels(site) : resp.changes[Collection(m)].deleted # {}
    /\ \A m \in SiteModels(site) : \A id \in DOMAIN db[m] : db[m][id].updated_at < now

---------------------------------------------------------------------------
(* C10: a repeated pull.                                                   *)

\* C10: a pull that repeats the cursor of the pull before it, with no push
\* in between, answers with the same changes, and the store is as it was
\* at the first of the two.
C10_RepeatedPull ==
    (Pulled /\ resp.repeat) => (resp.changes = resp.before /\ db = resp.store)

\* A pull has been repeated after the clock advanced, with a non-empty delta.
C10_Witness ==
    /\ Pulled /\ resp.repeat
    /\ resp.timestamp > resp.since
    /\ \E m \in SiteModels(site) : resp.changes[Collection(m)].created # {}
    /\ \E m \in SiteModels(site) : resp.changes[Collection(m)].deleted # {}

---------------------------------------------------------------------------
(* C6, C7: per-item errors.                                                *)

\* The last payload of a list that names id.
IsLastFor(items, i) == \A j \in (i + 1)..Len(items) : items[j].id # items[i].id

RemoveAt(s, k) == [i \in 1..(Len(s) - 1) |-> IF i < k THEN s[i] ELSE s[i + 1]]

\* The batch without the k-th id of the deleted list of model m.
WithoutDeleted(changes, m, k) ==
    [changes EXCEPT ![Collection(m)].deleted = RemoveAt(@, k)]

\* The push of this site's view.
SitePost(d, seq, changes, t) ==
    IF site = "watermelon_app" THEN post(d, changes, t)
    ELSE user_post(d, seq, changes, t)

\* The batch creates no record of model m with this id.
NotCreated(m, cs, z) ==
    IF m = "User" THEN cs.created = <<>>
    ELSE \A item \in Range(cs.created) : item.id # z

---------------------------------------------------------------------------
(* C8: a pull beside a push.                                               *)

\* C8: the changes of a completed pull are those of one committed store:
\* the store before or the store after each push that committed while the
\* pull ran, never a mix of the two.
C8_PullSeesWholeBatches ==
    reader.pc = "done" =>
        \E d \in reader.seen : reader.changes = get(d, reader.cursor, now).changes

---------------------------------------------------------------------------
(* C9: two pushes on one record.                                           *)

\* The store after the push of item a and then the push of item b.
Serial(base, a, b) == post(post(base, BatchOf(a), now).db, BatchOf(b), now).db

\* C9: when two pushes that touch the same record have both completed, the
\* store is the one that results from the two pushes run one after the
\* other, in one order or the other.
C9_PushesSerialize ==
    LET a == writers[1]
        b == writers[2]
    IN  (/\ a.pc = "done" /\ b.pc = "done"
         /\ a.item.model = b.item.model
         /\ a.item.val.id = b.item.val.id) =>
            db \in {Serial(a.base, a.item, b.item), Serial(a.base, b.item, a.item)}

---------------------------------------------------------------------------
(* C11: the target of a linkage.                                           *)

\* The payload is the only item of the batch's created and updated lists of
\* model m that names id.
OnlyItemFor(changes, m, id) ==
    LET cs == changes[Collection(m)] IN
    Cardinality({i \in 1..Len(cs.created) : cs.created[i].id = id}) = 1
    /\ \A i \in 1..Len(cs.updated) : cs.updated[i].id # id

\* Some error of the answer has this wording and names this model and id.
ErrorOf(errors, kind, m, id) ==
    \E i \in 1..Len(errors) : errors[i] = Err(kind, m, id)

\* C11: when a created payload with a fresh id gives a foreign key whose
\* target is missing or a tombstone at the end of the push, the answer
\* holds a linkage error for the payload and the foreign key of the record
\* is not set.
C11_LinkNeedsLiveTarget ==
    Pushed =>
        \A m \in {x \in SiteModels(site) : Fk(x) # ""} :
            \A item \in Range(resp.changes[Collection(m)].created) :
                LET tgt == IF Fk(m) \in DOMAIN item THEN item[Fk(m)] ELSE Null IN
                (/\ Fk(m) \in DOMAIN item
                 /\ item.id \notin DOMAIN resp.prev[m]
                 /\ OnlyItemFor(resp.changes, m, item.id)
                 /\ \/ tgt \notin DOMAIN db[FkTarget(m)]
                    \/ Tombstoned(db[FkTarget(m)][tgt])) =>
                    /\ ErrorOf(resp.errors, "failed to set " \o Fk(m), m, item.id)
                    /\ item.id \in DOMAIN db[m] => db[m][item.id][Fk(m)] = Null

---------------------------------------------------------------------------
(* C12: the order of the passes.                                           *)

\* The push applied statement by statement ends as the push applied whole.
StepsAgreeWithPost ==
    txn.pc = "done" =>
        LET r == SitePost(txn.prev, txn.prev_seq, txn.changes, now) IN
        db = r.db /\ txn.errors = r.errors /\ txn.status = r.status

\* The number of created payloads of a batch, over the site's collections.
CreatedCount(changes) ==
    LET ms == SiteModels(site) IN
    Len(changes[Collection(CHOOSE m \in ms : TRUE)].created)
    + Len(changes[Collection(CHOOSE m \in ms : m # (CHOOSE x \in ms : TRUE))].created)

\* C12: at every point of a push, a turn of the linkage pass that has set a
\* foreign key comes after the creation turn of every created payload of
\* the batch, of every collection.
C12_CreateBeforeLink ==
    txn.pc \in {"run", "done"} =>
        \A i \in 1..Len(txn.log) :
            (txn.log[i].op = "link" /\ txn.log[i].wrote) =>
                Cardinality({j \in 1..(i - 1) : txn.log[j].op = "create"})
                    = CreatedCount(txn.changes)

\* A push has created a project and a task and then linked both.
C12_Witness ==
    /\ txn.pc = "done"
    /\ Len(txn.log) = 4
    /\ txn.log[3].op = "link" /\ txn.log[3].wrote
    /\ txn.log[4].op = "link" /\ txn.log[4].wrote
    /\ txn.log[1].wrote /\ txn.log[2].wrote

---------------------------------------------------------------------------
(* C13: the response of a push.                                            *)

\* C13: a push answers with the success body and the success status exactly
\* when its error list is empty; otherwise it answers with the error list
\* under another status.
C13_SuccessIffNoErrors ==
    Pushed =>
        /\ (resp.body = [status |-> "success"] /\ resp.status = HTTP_200_OK)
              <=> resp.errors = <<>>
        /\ resp.errors # <<>> =>
              resp.body = [errors |-> resp.errors] /\ resp.status # HTTP_200_OK

\* A push has answered with two errors.
C13_Witness ==
    /\ Pushed
    /\ Len(resp.errors) = 2
    /\ resp.body = [errors |-> resp.errors]
    /\ resp.status = HTTP_400_BAD_REQUEST

---------------------------------------------------------------------------
(* C14: the timestamps of a row.                                           *)

\* C14: every row has created_at <= updated_at, and a push leaves the
\* created_at of every row it finds as it was and gives the rows it adds
\* the time of the push.
C14_CreatedAtKept ==
    /\ \A m \in Models : \A id \in DOMAIN db[m] :
          db[m][id].created_at <= db[m][id].updated_at
    /\ Pushed =>
          \A m \in Models : \A id \in DOMAIN db[m] :
              db[m][id].created_at =
                 IF id \in DOMAIN resp.prev[m] THEN resp.prev[m][id].created_at ELSE now

\* A push has written to a row created at an earlier tick of the clock.
C14_Witness ==
    /\ Pushed
    /\ \E m \in SiteModels(site) : \E id \in DOMAIN resp.prev[m] :
          /\ db[m][id].created_at < now
          /\ db[m][id].updated_at = now
          /\ resp.prev[m][id].updated_at < now

---------------------------------------------------------------------------
(* C15: bare creation.                                                     *)

\* C15: in the collections whose ids come from the client, a push stores
\* every created payload that has a fresh id and a valid scalar field,
\* reports no creation error for it, and sets the foreign key it gives when
\* the record that key names exists.
C15_BareCreationInserts ==
    Pushed =>
        \A m \in SiteModels(site) \ {"User"} :
            \A item \in Range(resp.changes[Collection(m)].created) :
                (/\ item.id \notin DOMAIN resp.prev[m]
                 /\ OnlyItemFor(resp.changes, m, item.id)
                 /\ Scalar(m) \in DOMAIN item
                 /\ item[Scalar(m)] \in GoodScalars) =>
                    /\ item.id \in DOMAIN db[m]
                    /\ ~ErrorOf(resp.errors, "creation failed", m, item.id)
                    /\ (Fk(m) \in DOMAIN item /\ item[Fk(m)] \in DOMAIN db[FkTarget(m)]) =>
                          db[m][item.id][Fk(m)] = item[Fk(m)]

---------------------------------------------------------------------------
(* C16: a chain of pulls.                                                  *)

\* The live records of a store as a pull serializes them.
LiveView(d) ==
    [m \in {"Project", "Task"} |->
        [id \in {x \in DOMAIN d[m] : ~Tombstoned(d[m][x])} |-> Serialize(m, id, d[m][id])]]

\* C16: after each pull of the chain the client's copy holds every change
\* committed before that pull read the store: it equals the live records of
\* the store the pull read.
C16_ChainLosesNothing ==
    reader.pc = "synced" => reader.replica = LiveView(reader.store)

---------------------------------------------------------------------------
(* C17: a store-level failure during a push.                               *)

\* C17: a push struck by a store-level failure ends as a failure of the
\* request as a whole, with the store as it was before the push, and not
\* with a response that lists errors of items.
C17_FaultAbortsPush ==
    (txn.pc \in {"done", "failed"} /\ txn.faulted) =>
        txn.pc = "failed" /\ db = txn.prev

---------------------------------------------------------------------------
(* C18: a rejected creation.                                               *)

\* C18: when the creation of a payload is rejected and the id it carries is
\* that of a record stored before the push, which no other item of the
\* batch names, the push leaves that record as it was.
C18_RejectedCreateChangesNothing ==
    Pushed =>
        \A m \in SiteModels(site) \ {"User"} :
            \A item \in Range(resp.changes[Collection(m)].created) :
                (/\ ErrorOf(resp.errors, "creation failed", m, item.id)
                 /\ item.id \in DOMAIN resp.prev[m]
                 /\ OnlyItemFor(resp.changes, m, item.id)
                 /\ item.id \notin Range(resp.changes[Collection(m)].deleted)) =>
                    db[m][item.id] = resp.prev[m][item.id]

---------------------------------------------------------------------------
(* C19: a partial update.                                                  *)

\* The batch is one update payload of model m and nothing else.
SingleUpdate(changes, m) ==
    \A x \in SiteModels(site) :
        LET cs == changes[Collection(x)] IN
        /\ cs.created = <<>> /\ cs.deleted = <<>>
        /\ Len(cs.updated) = (IF x = m THEN 1 ELSE 0)

\* The values the payload gives are acceptable for the record: a non-blank
\* scalar (a username no other user has), a foreign key that names a stored
\* record or is null where null is allowed.
AcceptableUpdate(prev, m, item) ==
    /\ Scalar(m) \in DOMAIN item =>
          /\ item[Scalar(m)] \in GoodScalars
          /\ m = "User" =>
                \A u \in DOMAIN prev[m] : prev[m][u].username = item.username => u = item.id
    /\ Fk(m) \in DOMAIN item =>
          IF item[Fk(m)] = Null THEN m # "StudentProfile"
          ELSE item[Fk(m)] \in DOMAIN prev[FkTarget(m)]

\* C19: a push of one update payload. When the payload names a live record
\* and its values are acceptable, the push reports no error, the record
\* takes the payload's value in each field the payload carries, keeps its
\* value in every other field, gets the time of the push as updated_at, and
\* no other record changes. When the payload names no record, the push
\* reports exactly one error, naming the model and the id, and the store is
\* as before.
C19_PartialUpdate ==
    Pushed =>
        \A m \in SiteModels(site) :
            SingleUpdate(resp.changes, m) =>
                LET item == resp.changes[Collection(m)].updated[1]
                    id == item.id
                    given == (DOMAIN item \cap Writable(m)) \ {"id"}
                IN
                /\ (/\ id \in DOMAIN resp.prev[m]
                    /\ ~Tombstoned(resp.prev[m][id])
                    /\ AcceptableUpdate(resp.prev, m, item)) =>
                       /\ resp.errors = <<>>
                       /\ db = PutRow(resp.prev, m, id,
                                [k \in DOMAIN resp.prev[m][id] |->
                                    IF k = "updated_at" THEN now
                                    ELSE IF k \in given THEN item[k]
                                    ELSE resp.prev[m][id][k]])
                /\ id \notin DOMAIN resp.prev[m] =>
                       /\ Len(resp.errors) = 1
                       /\ resp.errors[1].model = m /\ resp.errors[1].id = id
                       /\ db = resp.prev

\* A push has updated the title of a task of a project at a later tick than
\* the task's last write, and the task is still in the project.
C19_Witness ==
    /\ Pushed /\ site = "watermelon_app"
    /\ SingleUpdate(resp.changes, "Task")
    /\ DOMAIN resp.changes.tasks.updated[1] = {"id", "title"}
    /\ "T1" \in DOMAIN resp.prev["Task"]
    /\ resp.prev["Task"]["T1"].project = "P1"
    /\ resp.prev["Task"]["T1"].updated_at < now
    /\ db["Task"]["T1"].project = "P1"
    /\ db["Task"]["T1"].title = "b"
    /\ db["Task"]["T1"].updated_at = now

---------------------------------------------------------------------------
(* C20: a cursor that is no timestamp.                                     *)

\* C20: a pull whose cursor is present and is no millisecond timestamp is
\* answered as a malformed request, without a read of the store and with
\* the store as it was.
C20_MalformedCursorRejected ==
    (resp.kind \in {"pull", "exception", "malformed"} /\ resp.cursor \in BadCursors) =>
        /\ resp.kind = "malformed"
        /\ ~resp.read
        /\ db = resp.store

---------------------------------------------------------------------------
(* C21: a second deletion of a tombstone.                                  *)

\* C21: when the deleted list of a push names a record that was a tombstone
\* before the push, the record's deleted_at after the push is the one it
\* had, and a pull whose cursor is later than that time does not list the
\* id as deleted.
C21_DeleteIdempotent ==
    Pushed =>
        \A m \in SiteModels(site) :
            \A id \in Range(resp.changes[Collection(m)].deleted) :
                (id \in DOMAIN resp.prev[m] /\ Tombstoned(resp.prev[m][id])) =>
                    /\ db[m][id].deleted_at = resp.prev[m][id].deleted_at
                    /\ \A c \in 0..Millis(MaxTime) :
                          ParseCursor(c) > resp.prev[m][id].deleted_at =>
                              id \notin QueryDeleted(db, m, ParseCursor(c))

---------------------------------------------------------------------------
(* C22: a created payload with a null foreign key.                         *)

\* C22: in the projects/tasks view, a created payload with a fresh id, a
\* valid scalar field and its foreign key given as null is stored with the
\* foreign key null, and the answer holds no error for it.
C22_NullFkCreated ==
    (Pushed /\ site = "watermelon_app") =>
        \A m \in SiteModels(site) :
            \A item \in Range(resp.changes[Collection(m)].created) :
                (/\ Fk(m) \in DOMAIN item
                 /\ item[Fk(m)] = Null
                 /\ item.id \notin DOMAIN resp.prev[m]
                 /\ OnlyItemFor(resp.changes, m, item.id)
                 /\ Scalar(m) \in DOMAIN item
                 /\ item[Scalar(m)] \in GoodScalars) =>
                    /\ item.id \in DOMAIN db[m]
                    /\ db[m][item.id][Fk(m)] = Null
                    /\ ~ErrorFor(resp.errors, m, item.id)

====
